---- MODULE Spec2Model ----
(***************************************************************************)
(* The Azul engine of azul-game-server (class Azul): the tile pool, the    *)
(* move parser, pickTiles, wall tiling and the round transition; and the   *)
(* game records of the server (class Games) with the periodic sweep.       *)
(* Arrays the code indexes (players, lines, wall rows and columns,         *)
(* factories) are functions over 0..n-1 so that indices read as in the     *)
(* source; piles, whose order matters, are sequences.  A move token is a   *)
(* sequence of one-character strings.                                      *)
(***************************************************************************)
EXTENDS Integers, Sequences, FiniteSets, TLC

VARIABLES state, result, action, lastMove, moves, game, now

vars == <<state, result, action, lastMove, moves, game, now>>

(* ------------------------------ constants ------------------------------ *)

BLACK == "BLACK"
AQUA == "AQUA"
BLUE == "BLUE"
YELLOW == "YELLOW"
RED == "RED"

TILE_COLOR == {BLACK, AQUA, BLUE, YELLOW, RED}

\* the order [BLACK, AQUA, BLUE, YELLOW, RED] of newShuffledBag and parseMove
ColorList == <<BLACK, AQUA, BLUE, YELLOW, RED>>

wallOrdering ==
    [r \in 0..4 |->
        CASE r = 0 -> [c \in 0..4 |-> <<BLUE, YELLOW, RED, BLACK, AQUA>>[c + 1]]
          [] r = 1 -> [c \in 0..4 |-> <<AQUA, BLUE, YELLOW, RED, BLACK>>[c + 1]]
          [] r = 2 -> [c \in 0..4 |-> <<BLACK, AQUA, BLUE, YELLOW, RED>>[c + 1]]
          [] r = 3 -> [c \in 0..4 |-> <<RED, BLACK, AQUA, BLUE, YELLOW>>[c + 1]]
          [] r = 4 -> [c \in 0..4 |-> <<YELLOW, RED, BLACK, AQUA, BLUE>>[c + 1]]]

colorAtWallCoordinates(row, column) == wallOrdering[row][column]

patternLineSize(lineIndex) == lineIndex + 1

\* _.times(20, ...) in newShuffledBag
TilesPerColor == 20

\* takeNFromBag(4)
TilesPerFactory == 4

\* _.range(0, 10) and _.range(0, 5) in parseMove
FromRange == 10
ToLineRange == 5

(* ------------------------------ sequences ------------------------------ *)

RECURSIVE SelectSeqBy(_, _, _)
\* the elements of s equal to x (keep = TRUE) or different from x, in order
SelectSeqBy(s, x, keep) ==
    IF s = <<>> THEN <<>>
    ELSE LET rest == SelectSeqBy(Tail(s), x, keep)
         IN IF (Head(s) = x) = keep THEN <<Head(s)>> \o rest ELSE rest

includes(s, x) == \E i \in 1..Len(s) : s[i] = x

CountIn(s, x) == Cardinality({i \in 1..Len(s) : s[i] = x})

\* Array.prototype.splice(0, n): the removed front and what is left
SpliceFront(s, n) ==
    LET k == IF n < Len(s) THEN n ELSE Len(s)
    IN [taken |-> SubSeq(s, 1, k), left |-> SubSeq(s, k + 1, Len(s))]

(* ------------------------------- parsing ------------------------------- *)

Digits == <<"0", "1", "2", "3", "4", "5", "6", "7", "8", "9">>

LowerCase == <<"a", "b", "c", "d", "e", "f", "g", "h", "i", "j", "k", "l", "m",
               "n", "o", "p", "q", "r", "s", "t", "u", "v", "w", "x", "y", "z">>

UpperCase == <<"A", "B", "C", "D", "E", "F", "G", "H", "I", "J", "K", "L", "M",
               "N", "O", "P", "Q", "R", "S", "T", "U", "V", "W", "X", "Y", "Z">>

\* the characters of a colour name, for comparison with a token's field
ColorChars(c) ==
    CASE c = BLACK -> <<"B", "L", "A", "C", "K">>
      [] c = AQUA -> <<"A", "Q", "U", "A">>
      [] c = BLUE -> <<"B", "L", "U", "E">>
      [] c = YELLOW -> <<"Y", "E", "L", "L", "O", "W">>
      [] c = RED -> <<"R", "E", "D">>

IsDigit(ch) == \E i \in 1..10 : Digits[i] = ch

DigitValue(ch) == (CHOOSE i \in 1..10 : Digits[i] = ch) - 1

\* String.prototype.toUpperCase, one character at a time
toUpperCase(s) ==
    [i \in 1..Len(s) |->
        IF \E k \in 1..26 : LowerCase[k] = s[i]
        THEN UpperCase[CHOOSE k \in 1..26 : LowerCase[k] = s[i]]
        ELSE s[i]]

RECURSIVE SkipSpaces(_)
SkipSpaces(s) == IF s # <<>> /\ Head(s) = " " THEN SkipSpaces(Tail(s)) ELSE s

RECURSIVE DigitPrefix(_)
\* the longest prefix of s made of decimal digits
DigitPrefix(s) ==
    IF s # <<>> /\ IsDigit(Head(s)) THEN <<Head(s)>> \o DigitPrefix(Tail(s)) ELSE <<>>

RECURSIVE DecimalValue(_, _)
DecimalValue(ds, acc) ==
    IF ds = <<>> THEN acc ELSE DecimalValue(Tail(ds), 10 * acc + DigitValue(Head(ds)))

\* Number.parseInt(s, 10): leading blanks are skipped, one sign is read, then
\* the longest run of digits; no digit at all gives NaN; what follows is ignored
parseInt(s) ==
    LET t == SkipSpaces(s)
        signed == t # <<>> /\ Head(t) \in {"-", "+"}
        body == IF signed THEN Tail(t) ELSE t
        ds == DigitPrefix(body)
        v == DecimalValue(ds, 0)
    IN IF ds = <<>> THEN [isNaN |-> TRUE, value |-> 0]
       ELSE [isNaN |-> FALSE, value |-> IF signed /\ Head(t) = "-" THEN 0 - v ELSE v]

RECURSIVE split(_, _)
\* String.prototype.split('_'): cur is the field being read
split(s, cur) ==
    IF s = <<>> THEN <<cur>>
    ELSE IF Head(s) = "_" THEN <<cur>> \o split(Tail(s), <<>>)
    ELSE split(Tail(s), Append(cur, Head(s)))

\* Azul.parseMove: the move, or the error of the first check that fails
parseMove(move) ==
    LET underscoresCount == CountIn(move, "_")
        fields == split(move, <<>>)
        from == fields[1]
        color == toUpperCase(fields[2])
        toLine == fields[3]
        fromN == parseInt(from)
        toLineN == parseInt(toLine)
    IN IF underscoresCount # 2 THEN [error |-> "MalformedToken"]
       ELSE IF ~(~fromN.isNaN /\ fromN.value \in 0..(FromRange - 1))
            THEN [error |-> "InvalidSource"]
       ELSE IF ~(\E c \in TILE_COLOR : ColorChars(c) = color)
            THEN [error |-> "InvalidColor"]
       ELSE IF ~(~toLineN.isNaN /\ toLineN.value \in 0..(ToLineRange - 1))
            THEN [error |-> "InvalidLine"]
       ELSE [error |-> "none", from |-> fromN.value,
             color |-> CHOOSE c \in TILE_COLOR : ColorChars(c) = color,
             toLine |-> toLineN.value]

(* ------------------------------ the board ------------------------------ *)

\* the bag before _.shuffle: 20 times [BLACK, AQUA, BLUE, YELLOW, RED]
UnshuffledBag == [i \in 1..(5 * TilesPerColor) |-> ColorList[((i - 1) % 5) + 1]]

newBoard(numberOfPlayers, bag) ==
    [currentPlayerIndex |-> 0,
     numberOfPlayers |-> numberOfPlayers,
     startingPlayer |-> 0,
     bag |-> bag,
     center |-> <<>>,
     factories |-> <<>>,
     patternLines |-> [p \in 0..(numberOfPlayers - 1) |-> [l \in 0..4 |-> <<>>]],
     walls |-> [p \in 0..(numberOfPlayers - 1) |->
                  [r \in 0..4 |-> [c \in 0..4 |-> FALSE]]],
     floorLines |-> [p \in 0..(numberOfPlayers - 1) |-> <<>>],
     discardPile |-> <<>>]

allPilesAreEmpty(s) ==
    /\ Len(s.center) = 0
    /\ \A f \in DOMAIN s.factories : Len(s.factories[f]) = 0

RECURSIVE DealFactories(_, _, _)
\* _.times(k, () => takeNFromBag(4)): the factories dealt so far and the bag left
DealFactories(k, dealt, bag) ==
    IF k = 0 THEN [factories |-> dealt, bag |-> bag]
    ELSE LET sp == SpliceFront(bag, TilesPerFactory)
         IN DealFactories(k - 1, Append(dealt, sp.taken), sp.left)

\* a sequence as an array indexed from 0
ZeroBased(seq) == [i \in 0..(Len(seq) - 1) |-> seq[i + 1]]

\* NumFactories with the counts for three and four players exchanged
NumFactoriesExchanged(numPlayers) ==
    CASE numPlayers = 2 -> 5
      [] numPlayers = 3 -> 9
      [] numPlayers = 4 -> 7
      [] OTHER -> 0

NumFactories(numPlayers) ==
    CASE numPlayers = 2 -> 5
      [] numPlayers = 3 -> 7
      [] numPlayers = 4 -> 9
      [] OTHER -> 0

\* Azul.repopulateFactories
repopulateFactories(s) ==
    IF ~allPilesAreEmpty(s) THEN [error |-> "FactoriesNotEmpty", state |-> s]
    ELSE IF s.numberOfPlayers \notin {2, 3, 4}
         THEN [error |-> "InvalidPlayerCount", state |-> s]
    ELSE LET d == DealFactories(NumFactories(s.numberOfPlayers), <<>>, s.bag)
         IN [error |-> "none",
             state |-> [s EXCEPT !.factories = ZeroBased(d.factories), !.bag = d.bag]]

\* Azul.createFromNumPlayers, given the outcome of _.shuffle
createFromNumPlayers(numPlayers, shuffled) ==
    repopulateFactories(newBoard(numPlayers, shuffled))

(* ------------------------------ the engine ----------------------------- *)

\* encureCanPlaceOnPatternLine without its check of the line's colour
encureCanPlaceIgnoringLine(s, lineIndex, color) ==
    IF \E column \in 0..4 :
          /\ s.walls[s.currentPlayerIndex][lineIndex][column] = TRUE
          /\ colorAtWallCoordinates(lineIndex, column) = color
    THEN "WallAlreadyHasColor"
    ELSE "none"

\* encureCanPlaceOnPatternLine without its check of the wall
encureCanPlaceIgnoringWall(s, lineIndex, color) ==
    LET line == s.patternLines[s.currentPlayerIndex][lineIndex]
    IN IF Len(line) # 0 /\ ~includes(line, color) THEN "LineColorConflict" ELSE "none"

\* Azul.encureCanPlaceOnPatternLine: the error it throws, or "none"
encureCanPlaceOnPatternLine(s, lineIndex, color) ==
    LET playerIndex == s.currentPlayerIndex
        patternLineSz == lineIndex + 1
        line == s.patternLines[playerIndex][lineIndex]
        numFreeSpaces == patternLineSz - Len(line)
        lineIsEmpty == patternLineSz = numFreeSpaces
        wallHorizontalLine == s.walls[playerIndex]
    IN IF ~lineIsEmpty /\ ~includes(line, color) THEN "LineColorConflict"
       ELSE IF \E column \in 0..4 :
                   /\ wallHorizontalLine[lineIndex][column] = TRUE
                   /\ colorAtWallCoordinates(lineIndex, column) = color
            THEN "WallAlreadyHasColor"
       ELSE "none"

\* numFreeSpacesOnPatternLine counting one space too many
numFreeSpacesOneMore(s, lineIndex) ==
    patternLineSize(lineIndex) + 1 - Len(s.patternLines[s.currentPlayerIndex][lineIndex])

numFreeSpacesOnPatternLine(s, lineIndex) ==
    patternLineSize(lineIndex) - Len(s.patternLines[s.currentPlayerIndex][lineIndex])

RECURSIVE PlaceTilesFloorZero(_, _, _, _)
\* PlaceTiles putting the tiles that do not fit on the floor line of player 0
PlaceTilesFloorZero(s, pickedTiles, cpi, lineIndex) ==
    IF pickedTiles = <<>> THEN s
    ELSE LET tile == Head(pickedTiles)
             s1 == IF patternLineSize(lineIndex)
                          - Len(s.patternLines[cpi][lineIndex]) # 0
                   THEN [s EXCEPT !.patternLines[cpi][lineIndex] = Append(@, tile)]
                   ELSE [s EXCEPT !.floorLines[0] = Append(@, tile)]
         IN PlaceTilesFloorZero(s1, Tail(pickedTiles), cpi, lineIndex)

RECURSIVE PlaceTilesNoOverflow(_, _, _, _)
\* PlaceTiles putting every picked tile into the line, whatever room it has
PlaceTilesNoOverflow(s, pickedTiles, cpi, lineIndex) ==
    IF pickedTiles = <<>> THEN s
    ELSE PlaceTilesNoOverflow(
             [s EXCEPT !.patternLines[cpi][lineIndex] = Append(@, Head(pickedTiles))],
             Tail(pickedTiles), cpi, lineIndex)

RECURSIVE PlaceTiles(_, _, _, _)
\* pickedTiles.forEach: a tile goes to the line while it has a free space,
\* to the floor line of player cpi otherwise
PlaceTiles(s, pickedTiles, cpi, lineIndex) ==
    IF pickedTiles = <<>> THEN s
    ELSE LET tile == Head(pickedTiles)
             s1 == IF numFreeSpacesOnPatternLine(s, lineIndex) # 0
                   THEN [s EXCEPT !.patternLines[cpi][lineIndex] = Append(@, tile)]
                   ELSE [s EXCEPT !.floorLines[cpi] = Append(@, tile)]
         IN PlaceTiles(s1, Tail(pickedTiles), cpi, lineIndex)

\* TileLine discarding the whole line, the tile that went to the wall included
TileLineDiscardsAll(s, playerIndex, lineIndex) ==
    LET line == s.patternLines[playerIndex][lineIndex]
    IN IF Len(line) = patternLineSize(lineIndex)
       THEN [s EXCEPT
               !.walls[playerIndex][lineIndex] =
                   [column \in 0..4 |->
                       IF wallOrdering[lineIndex][column] = line[Len(line)] THEN TRUE
                       ELSE @[column]],
               !.patternLines[playerIndex][lineIndex] = <<>>,
               !.discardPile = @ \o line]
       ELSE s

\* TileLine setting the wall cell by the colour order of row 0 in every row
TileLineRowZero(s, playerIndex, lineIndex) ==
    LET line == s.patternLines[playerIndex][lineIndex]
    IN IF Len(line) = patternLineSize(lineIndex)
       THEN [s EXCEPT
               !.walls[playerIndex][lineIndex] =
                   [column \in 0..4 |->
                       IF wallOrdering[0][column] = line[Len(line)] THEN TRUE
                       ELSE @[column]],
               !.patternLines[playerIndex][lineIndex] = <<>>,
               !.discardPile = @ \o SubSeq(line, 1, Len(line) - 1)]
       ELSE s

\* TileLine returning the tiles of a tiled line to the bag, not to the discard pile
TileLineRefillsBag(s, playerIndex, lineIndex) ==
    LET line == s.patternLines[playerIndex][lineIndex]
    IN IF Len(line) = patternLineSize(lineIndex)
       THEN [s EXCEPT
               !.walls[playerIndex][lineIndex] =
                   [column \in 0..4 |->
                       IF wallOrdering[lineIndex][column] = line[Len(line)] THEN TRUE
                       ELSE @[column]],
               !.patternLines[playerIndex][lineIndex] = <<>>,
               !.bag = @ \o SubSeq(line, 1, Len(line) - 1)]
       ELSE s

\* one line of one player in moveTilesToWall
TileLine(s, playerIndex, lineIndex) ==
    LET line == s.patternLines[playerIndex][lineIndex]
    IN IF Len(line) = patternLineSize(lineIndex)
       THEN LET oneTile == line[Len(line)]
                rest == SubSeq(line, 1, Len(line) - 1)
            IN [s EXCEPT
                  !.walls[playerIndex][lineIndex] =
                      [column \in 0..4 |->
                          IF wallOrdering[lineIndex][column] = oneTile THEN TRUE
                          ELSE @[column]],
                  !.patternLines[playerIndex][lineIndex] = <<>>,
                  !.discardPile = @ \o rest]
       ELSE s

RECURSIVE TileFrom(_, _)
\* the two loops of moveTilesToWall from step k on: player k \div 5, line k % 5
TileFrom(s, k) ==
    IF k >= 5 * s.numberOfPlayers THEN s
    ELSE TileFrom(TileLine(s, k \div 5, k % 5), k + 1)

\* Azul.moveTilesToWall
moveTilesToWall(s) == TileFrom(s, 0)

\* Azul.shouldEnd
\* shouldEnd looking for a complete column where the code looks for a row
shouldEndByColumn(s) ==
    \E p \in DOMAIN s.walls : \E c \in 0..4 : \A r \in 0..4 : s.walls[p][r][c]

shouldEnd(s) ==
    \E p \in DOMAIN s.walls : \E r \in 0..4 : \A c \in 0..4 : s.walls[p][r][c]

\* the pile pickTiles clones; factories[factoryIndex] is undefined when there is
\* no such factory, and _.includes(undefined, color) is false
PileExists(s, pileIndex) == pileIndex = 0 \/ (pileIndex - 1) \in DOMAIN s.factories

PileAt(s, pileIndex) ==
    IF pileIndex = 0 THEN s.center
    ELSE IF PileExists(s, pileIndex) THEN s.factories[pileIndex - 1]
    ELSE <<>>

\* the end of turn of pickTiles
\* EndOfTurn passing the turn on without the wrap to player 0
EndOfTurnNoWrap(s) ==
    IF allPilesAreEmpty(s)
    THEN LET tiled == moveTilesToWall(s)
         IN IF shouldEnd(tiled)
            THEN [error |-> "GameEndingNotImplemented", state |-> tiled]
            ELSE LET r == repopulateFactories(tiled)
                 IN IF r.error # "none" THEN r
                    ELSE [error |-> "none",
                          state |-> [r.state EXCEPT
                                       !.currentPlayerIndex = r.state.startingPlayer]]
    ELSE [error |-> "none",
          state |-> [s EXCEPT !.currentPlayerIndex = s.currentPlayerIndex + 1]]

\* EndOfTurn tiling the walls at the end of every turn
EndOfTurnTilesAlways(s) ==
    IF allPilesAreEmpty(s)
    THEN LET tiled == moveTilesToWall(s)
         IN IF shouldEnd(tiled)
            THEN [error |-> "GameEndingNotImplemented", state |-> tiled]
            ELSE LET r == repopulateFactories(tiled)
                 IN IF r.error # "none" THEN r
                    ELSE [error |-> "none",
                          state |-> [r.state EXCEPT
                                       !.currentPlayerIndex = r.state.startingPlayer]]
    ELSE [error |-> "none",
          state |-> [moveTilesToWall(s) EXCEPT !.currentPlayerIndex =
                                  (s.currentPlayerIndex + 1) % s.numberOfPlayers]]

\* EndOfTurn handing the discarded tiles to the center when the game ends
EndOfTurnRefillsCenter(s) ==
    IF allPilesAreEmpty(s)
    THEN LET tiled == moveTilesToWall(s)
         IN IF shouldEnd(tiled)
            THEN [error |-> "GameEndingNotImplemented",
                  state |-> [tiled EXCEPT !.center = tiled.discardPile,
                                          !.discardPile = <<>>]]
            ELSE LET r == repopulateFactories(tiled)
                 IN IF r.error # "none" THEN r
                    ELSE [error |-> "none",
                          state |-> [r.state EXCEPT
                                       !.currentPlayerIndex = r.state.startingPlayer]]
    ELSE [error |-> "none",
          state |-> [s EXCEPT !.currentPlayerIndex =
                                  (s.currentPlayerIndex + 1) % s.numberOfPlayers]]

EndOfTurn(s) ==
    IF allPilesAreEmpty(s)
    THEN LET tiled == moveTilesToWall(s)
         IN IF shouldEnd(tiled)
            THEN [error |-> "GameEndingNotImplemented", state |-> tiled]
            ELSE LET r == repopulateFactories(tiled)
                 IN IF r.error # "none" THEN r
                    ELSE [error |-> "none",
                          state |-> [r.state EXCEPT
                                       !.currentPlayerIndex = r.state.startingPlayer]]
    ELSE [error |-> "none",
          state |-> [s EXCEPT !.currentPlayerIndex =
                                  (s.currentPlayerIndex + 1) % s.numberOfPlayers]]

\* the center and the factories after a pick
\* MutatePiles putting the tiles left over in front of the center
MutatePilesInFront(s, pileIndex, pileAfterPick) ==
    IF pileIndex = 0 THEN [s EXCEPT !.center = pileAfterPick]
    ELSE [s EXCEPT !.factories[pileIndex - 1] = <<>>,
                   !.center = pileAfterPick \o @]

\* MutatePiles leaving the tiles of a factory where they are
MutatePilesKeepsFactory(s, pileIndex, pileAfterPick) ==
    IF pileIndex = 0 THEN [s EXCEPT !.center = pileAfterPick]
    ELSE [s EXCEPT !.center = @ \o pileAfterPick]

MutatePiles(s, pileIndex, pileAfterPick) ==
    IF pileIndex = 0 THEN [s EXCEPT !.center = pileAfterPick]
    ELSE [s EXCEPT !.factories[pileIndex - 1] = <<>>,
                   !.center = @ \o pileAfterPick]

\* pickTiles checking the pattern line and the wall before the pile
pickTilesLegalityFirst(s, pileIndex, lineIndex, color) ==
    LET pile == PileAt(s, pileIndex)
        canPlace == encureCanPlaceOnPatternLine(s, lineIndex, color)
    IN IF canPlace # "none" THEN [error |-> canPlace, state |-> s]
       ELSE IF ~(PileExists(s, pileIndex) /\ includes(pile, color))
       THEN [error |-> "ColorNotInPile", state |-> s]
       ELSE EndOfTurn(MutatePiles(
                PlaceTiles(s, SelectSeqBy(pile, color, TRUE), s.currentPlayerIndex,
                           lineIndex),
                pileIndex, SelectSeqBy(pile, color, FALSE)))

\* pickTiles placing the picked tiles before it checks the line and the wall
pickTilesPlaceFirst(s, pileIndex, lineIndex, color) ==
    LET pile == PileAt(s, pileIndex)
        canPlace == encureCanPlaceOnPatternLine(s, lineIndex, color)
        placed == PlaceTiles(s, SelectSeqBy(pile, color, TRUE), s.currentPlayerIndex,
                             lineIndex)
    IN IF ~(PileExists(s, pileIndex) /\ includes(pile, color))
       THEN [error |-> "ColorNotInPile", state |-> s]
       ELSE IF canPlace # "none" THEN [error |-> canPlace, state |-> placed]
       ELSE EndOfTurn(MutatePiles(placed, pileIndex, SelectSeqBy(pile, color, FALSE)))

\* Azul.pickTiles: the error thrown ("none" when it returns) and the state left
pickTiles(s, pileIndex, lineIndex, color) ==
    LET pile == PileAt(s, pileIndex)
        pileAfterPick == SelectSeqBy(pile, color, FALSE)
        pickedTiles == SelectSeqBy(pile, color, TRUE)
        canPlace == encureCanPlaceOnPatternLine(s, lineIndex, color)
        cpi == s.currentPlayerIndex
    IN IF ~(PileExists(s, pileIndex) /\ includes(pile, color))
       THEN [error |-> "ColorNotInPile", state |-> s]
       ELSE IF canPlace # "none" THEN [error |-> canPlace, state |-> s]
       ELSE EndOfTurn(MutatePiles(PlaceTiles(s, pickedTiles, cpi, lineIndex),
                                  pileIndex, pileAfterPick))

(* ------------------------------- inputs -------------------------------- *)

RECURSIVE Runs(_, _)
\* each colour of cs repeated n times
Runs(cs, n) ==
    IF cs = <<>> THEN <<>>
    ELSE [i \in 1..n |-> Head(cs)] \o Runs(Tail(cs), n)

\* Outcomes of _.shuffle.  MonoBag deals factories of one colour each, so a
\* round lasts as many moves as there are factories; MixedBag deals two
\* two-coloured factories first, so that picks leave a remainder for the center.
MonoBag ==
    Runs(<<BLACK, AQUA, BLACK, AQUA, BLACK,
           AQUA, BLACK, AQUA, BLACK, AQUA,
           BLUE, YELLOW, RED, BLUE, YELLOW,
           RED, BLUE, YELLOW, RED, BLUE,
           YELLOW, RED, BLUE, YELLOW, RED>>, 4)

MixedBag ==
    <<BLACK, BLACK, AQUA, AQUA, BLACK, AQUA, AQUA, BLACK>>
    \o Runs(<<BLUE, YELLOW, RED,
              BLACK, AQUA, BLUE, YELLOW, RED,
              BLACK, AQUA, BLUE, YELLOW, RED,
              BLACK, AQUA, BLUE, YELLOW, RED,
              BLACK, AQUA, BLUE, YELLOW, RED>>, 4)

Shuffles == {MonoBag, MixedBag}

\* the token <from>_<color>_<toLine> of a move
Token(from, color, toLine) ==
    <<Digits[from + 1]>> \o <<"_">> \o ColorChars(color) \o <<"_">>
        \o <<Digits[toLine + 1]>>

\* the moves the players submit: the center, the five factories of a match of
\* two and a pile index that match does not have; two colours; the shortest and the longest line
MoveTokens ==
    {Token(f, c, l) : f \in {0, 1, 2, 3, 4, 5, 9}, c \in {BLACK, AQUA}, l \in {0, 4}}

\* tokens the parser rejects, one for each of its checks
BadTokens ==
    {<<"0", "_", "R", "E", "D">>,
     <<"x", "_", "R", "E", "D", "_", "3">>,
     <<"0", "_", "P", "U", "R", "P", "L", "E", "_", "3">>,
     <<"0", "_", "R", "E", "D", "_", "9">>}

Tokens == MoveTokens \cup BadTokens

\* orders of the bag, in factories of one colour each, with which a match of 2,
\* 3 and 4 players whose players keep to lines 0 and 1 can be played until the
\* bag is empty
LongBag2 ==
    Runs(<<BLUE, BLACK, YELLOW, BLACK, BLUE,
           RED, AQUA, RED, AQUA, RED,
           RED, BLUE, AQUA, YELLOW, RED,
           YELLOW, BLUE, YELLOW, BLUE, YELLOW,
           BLACK, AQUA, BLACK, AQUA, BLACK>>, 4)

LongBag3 ==
    Runs(<<BLACK, AQUA, RED, AQUA, RED,
           BLUE, BLACK, YELLOW, BLACK, RED,
           BLUE, BLACK, BLUE, BLUE, AQUA,
           RED, AQUA, AQUA, BLUE, YELLOW,
           BLACK, YELLOW, YELLOW, YELLOW, RED>>, 4)

LongBag4 ==
    Runs(<<AQUA, RED, AQUA, BLUE, AQUA,
           BLACK, RED, YELLOW, YELLOW, BLUE,
           AQUA, RED, YELLOW, RED, BLUE,
           AQUA, BLACK, RED, BLUE, BLACK,
           YELLOW, BLACK, BLUE, BLACK, YELLOW>>, 4)

LongBag(numPlayers) ==
    CASE numPlayers = 2 -> LongBag2
      [] numPlayers = 3 -> LongBag3
      [] numPlayers = 4 -> LongBag4

\* the lines the players of a whole match move to
LongLines == {0, 1}

\* the tokens of a whole match: any factory, any colour, into the lines above
LongTokens ==
    {Token(f, c, l) : f \in 1..9, c \in TILE_COLOR, l \in LongLines}

\* an order of the bag whose first deal puts two tiles of other colours and
\* two RED tiles into each of the five factories of a match of two
StuckBag ==
    <<BLACK, AQUA, RED, RED, BLACK, AQUA, RED, RED,
      BLUE, YELLOW, RED, RED, BLUE, YELLOW, RED, RED,
      BLACK, BLUE, RED, RED>>
    \o Runs(<<BLACK, AQUA, BLUE, YELLOW>>, 17)
    \o <<AQUA, YELLOW>>
    \o Runs(<<RED>>, 10)

\* the lines the players of that match move the tiles of the center to
StuckLines == {0, 1, 2, 3, 4}

\* the tokens of that match: BLACK or BLUE from factory f into line f - 1, and
\* any colour but RED from the center
StuckTokens ==
    {Token(f, c, f - 1) : f \in 1..5, c \in {BLACK, BLUE}}
        \cup {Token(0, c, l) : c \in {AQUA, YELLOW, BLUE}, l \in StuckLines}

\* parseMove on the tokens of the model, evaluated once
ParsedMove ==
    [t \in Tokens \cup LongTokens \cup StuckTokens |-> parseMove(t)]

\* Azul.do
do(s, token) ==
    LET move == ParsedMove[token]
    IN IF move.error # "none" THEN [error |-> move.error, state |-> s]
       ELSE pickTiles(s, move.from, move.toLine, move.color)

(* ----------------------------- the machine ----------------------------- *)

\* successful moves explored in one match
MaxMoves == 7

NoMove == [error |-> "pending"]

\* no game record: the engine used as a library
NoGame == [status |-> "none"]

\* Azul.createFromNumPlayers(numPlayers) on one outcome of the shuffle; when it
\* throws, no Azul exists and state is the board newBoard left behind
Created(numPlayers, shuffled) ==
    LET made == createFromNumPlayers(numPlayers, shuffled)
    IN /\ state = made.state
       /\ result = IF made.error = "none" THEN "created" ELSE made.error
       /\ action = <<>>
       /\ lastMove = NoMove
       /\ moves = 0
       /\ game = NoGame
       /\ now = 0

\* Games.create: every match of the server is one of two players
Init == \E shuffled \in Shuffles : Created(2, shuffled)

\* one call of do(token) on the match.  result is the error thrown ("none" when
\* the call returns); action and lastMove are the token and the parsed move of
\* the last call that returned.
Do(token) ==
    LET r == do(state, token)
    IN /\ result \notin {"InvalidPlayerCount", "pending"}
       /\ r.error = "none" => moves < MaxMoves
       /\ state' = r.state
       /\ result' = r.error
       /\ action' = IF r.error = "none" THEN token ELSE action
       /\ lastMove' = IF r.error = "none" THEN ParsedMove[token] ELSE lastMove
       /\ moves' = IF r.error = "none" THEN moves + 1 ELSE moves
       /\ UNCHANGED <<game, now>>

Next == \E token \in Tokens : Do(token)

Spec == Init /\ [][Next]_vars

\* the source the players of a whole match pick from: they empty the factories
\* in their order (factory 1 when none holds a tile)
NextFactory(s) ==
    IF \E k \in DOMAIN s.factories : s.factories[k] # <<>>
    THEN 1 + CHOOSE k \in DOMAIN s.factories :
                 /\ s.factories[k] # <<>>
                 /\ \A j \in DOMAIN s.factories : j < k => s.factories[j] = <<>>
    ELSE 1

\* one call of do(token) in a match played to its end: as Do, with no limit on
\* the number of moves (the 100 tiles allow 25 picks of a whole factory)
Play(token) ==
    LET r == do(state, token)
    IN /\ result \notin {"InvalidPlayerCount", "pending"}
       /\ ParsedMove[token].from = NextFactory(state)
       /\ state' = r.state
       /\ result' = r.error
       /\ action' = IF r.error = "none" THEN token ELSE action
       /\ lastMove' = IF r.error = "none" THEN ParsedMove[token] ELSE lastMove
       /\ moves' = IF r.error = "none" THEN moves + 1 ELSE moves
       /\ UNCHANGED <<game, now>>

InitLong == \E numPlayers \in {2, 3, 4} : Created(numPlayers, LongBag(numPlayers))

NextLong == \E token \in LongTokens : Play(token)

\* matches of 2, 3 and 4 players played until the bag runs out or a wall row
\* is complete
SpecLong == InitLong /\ [][NextLong]_vars

\* the number of moves of the first round of the match below
MaxStuckMoves == 10

\* one call of do(token) in the first round of a match: as Do, the factories
\* being emptied in their order
PlayFirstRound(token) ==
    LET r == do(state, token)
    IN /\ result \notin {"InvalidPlayerCount", "pending"}
       /\ r.error = "none" => moves < MaxStuckMoves
       /\ ParsedMove[token].from \in {0, NextFactory(state)}
       /\ state' = r.state
       /\ result' = r.error
       /\ action' = IF r.error = "none" THEN token ELSE action
       /\ lastMove' = IF r.error = "none" THEN ParsedMove[token] ELSE lastMove
       /\ moves' = IF r.error = "none" THEN moves + 1 ELSE moves
       /\ UNCHANGED <<game, now>>

InitStuck == Created(2, StuckBag)

NextStuck == \E token \in StuckTokens : PlayFirstRound(token)

\* the first round of a match of two whose factories hold RED tiles that
\* nobody picks
SpecStuck == InitStuck /\ [][NextStuck]_vars

\* the player counts createFromNumPlayers is tried with
PlayerCounts == {1, 2, 3, 4, 5}

\* the orders of the bag a match of numPlayers players is created with
ShufflesFor(numPlayers) == IF numPlayers = 2 THEN Shuffles ELSE {MixedBag}

InitAnyPlayers ==
    \E numPlayers \in PlayerCounts :
        \E shuffled \in ShufflesFor(numPlayers) : Created(numPlayers, shuffled)

\* the engine as a library: matches of every player count
SpecAnyPlayers == InitAnyPlayers /\ [][Next]_vars

\* a wall given by the set of its cells <<row, column>> that are true
WallOf(cells) == [r \in 0..4 |-> [c \in 0..4 |-> <<r, c>> \in cells]]

Cells == (0..4) \X (0..4)

\* the walls shouldEnd is tried on, each with whether it has a complete row:
\* no tile, one row alone, one row beside partial rows, one column, two
\* columns, the diagonal, all but the diagonal, every cell
WallCases ==
    {[cells |-> {}, fullRow |-> FALSE],
     [cells |-> {rc \in Cells : rc[1] = rc[2]}, fullRow |-> FALSE],
     [cells |-> {rc \in Cells : rc[1] # rc[2]}, fullRow |-> FALSE],
     [cells |-> {rc \in Cells : rc[2] \in {1, 3}}, fullRow |-> FALSE],
     [cells |-> Cells, fullRow |-> TRUE]}
    \cup {[cells |-> {rc \in Cells : rc[1] = r}, fullRow |-> TRUE] : r \in 0..4}
    \cup {[cells |-> {rc \in Cells : rc[1] = r \/ rc[2] < 2}, fullRow |-> TRUE] :
             r \in 0..4}
    \cup {[cells |-> {rc \in Cells : rc[2] = c}, fullRow |-> FALSE] : c \in 0..4}

\* a board of two players with the given walls
InitShouldEnd ==
    \E w0 \in WallCases, w1 \in WallCases :
        /\ state = [newBoard(2, <<>>) EXCEPT
                      !.walls = [p \in 0..1 |->
                                    WallOf(IF p = 0 THEN w0.cells ELSE w1.cells)]]
        /\ result = "pending"
        /\ action = <<>>
        /\ lastMove = NoMove
        /\ moves = 0
        /\ game = NoGame
        /\ now = 0

\* Azul.shouldEnd() on the board: result is what it returns
ShouldEndCall ==
    /\ result = "pending"
    /\ result' = IF shouldEnd(state) THEN "true" ELSE "false"
    /\ UNCHANGED <<state, action, lastMove, moves, game, now>>

SpecShouldEnd == InitShouldEnd /\ [][ShouldEndCall]_vars

\* A field of a token as the caller wrote it: its characters and what it
\* denotes (isInt: a decimal integer, val; color: a colour name in any case).
IntField(chars, isInt, val) == [chars |-> chars, isInt |-> isInt, val |-> val]

ColorField(chars, color) == [chars |-> chars, color |-> color]

SourceFields ==
    {IntField(<<"0">>, TRUE, 0), IntField(<<"3">>, TRUE, 3), IntField(<<"9">>, TRUE, 9),
     IntField(<<"1", "0">>, TRUE, 10), IntField(<<"-", "1">>, TRUE, 0 - 1),
     IntField(<<"x">>, FALSE, 0), IntField(<<>>, FALSE, 0),
     IntField(<<"1", "x">>, FALSE, 0)}

ColorFields ==
    {ColorField(<<"R", "E", "D">>, RED), ColorField(<<"r", "e", "d">>, RED),
     ColorField(<<"B", "l", "a", "c", "k">>, BLACK),
     ColorField(<<"A", "Q", "U", "A">>, AQUA),
     ColorField(<<"b", "l", "u", "e">>, BLUE),
     ColorField(<<"y", "e", "l", "l", "o", "W">>, YELLOW),
     ColorField(<<"P", "U", "R", "P", "L", "E">>, "none"),
     ColorField(<<"R", "E", "D", "D">>, "none"),
     ColorField(<<>>, "none")}

LineFields ==
    {IntField(<<"0">>, TRUE, 0), IntField(<<"3">>, TRUE, 3), IntField(<<"4">>, TRUE, 4),
     IntField(<<"5">>, TRUE, 5), IntField(<<"9">>, TRUE, 9),
     IntField(<<"x">>, FALSE, 0), IntField(<<>>, FALSE, 0),
     IntField(<<"3", "x">>, FALSE, 0)}

\* the tokens of three fields, and tokens with one, two and four fields
ThreeFieldCases ==
    {[source |-> sf, color |-> cf, line |-> lf,
      token |-> sf.chars \o <<"_">> \o cf.chars \o <<"_">> \o lf.chars] :
        sf \in SourceFields, cf \in ColorFields, lf \in LineFields}

OtherTokens ==
    {<<>>,
     <<"0", "R", "E", "D", "3">>,
     <<"0", "_", "R", "E", "D">>,
     <<"x", "_", "P">>,
     <<"0", "_", "R", "E", "D", "_", "3", "_", "1">>,
     <<"_", "_", "_">>}

ParseTokens == {c.token : c \in ThreeFieldCases} \cup OtherTokens

\* parseMove as a function of its argument alone: a caller holds a token
InitParse ==
    /\ action \in ParseTokens
    /\ lastMove = NoMove
    /\ result = "pending"
    /\ state = newBoard(0, <<>>)
    /\ moves = 0
    /\ game = NoGame
    /\ now = 0

\* Azul.parseMove(action): lastMove is what it returns, or the error it throws
Parse ==
    /\ result = "pending"
    /\ lastMove' = parseMove(action)
    /\ result' = lastMove'.error
    /\ UNCHANGED <<state, action, moves, game, now>>

SpecParse == InitParse /\ [][Parse]_vars

(* --------------------------- the game records -------------------------- *)

\* seconds after which a game whose last move is older refuses calls
TIME_PER_MOVE == 60

\* seconds without a move after which the sweep ends a started game
END_STARTED_STALE_GAMES_AFTER_SECONDS == 120

\* seconds after its creation after which the sweep ends a game not started
END_CREATED_GAMES_AFTER_SECONDS == 60

\* Games.getSecondsSinceCreated
getSecondsSinceCreated(g, t) == t - g.createdAt

\* Games.getSecondsSinceLastMove: null when no move is logged
getSecondsSinceLastMove(g, t) ==
    IF Len(g.moves) = 0 THEN [isNull |-> TRUE, value |-> 0]
    ELSE [isNull |-> FALSE, value |-> t - g.moves[Len(g.moves)].timestamp]

\* !x of a number or null: true for null and for 0
Falsy(x) == x.isNull \/ x.value = 0

\* ensureGameNotStale finding no game stale
ensureNeverStale(g, t) == "none"

\* Games.ensureGameNotStale: the error it throws
ensureGameNotStale(g, t) ==
    LET timeSinceLastMove == getSecondsSinceLastMove(g, t)
    IN IF Falsy(timeSinceLastMove) THEN "none"
       ELSE IF timeSinceLastMove.value > TIME_PER_MOVE THEN "GameStale"
       ELSE "none"

\* an entry of game.events: what happened and the player it names
Event(kind, playerId) == [kind |-> kind, playerId |-> playerId]

\* Games.create at time t
create(t, shuffled) ==
    [game |-> [status |-> "created", playerIds |-> <<>>, createdAt |-> t,
               moves |-> <<>>, events |-> <<Event("created", "")>>],
     state |-> createFromNumPlayers(2, shuffled).state]

\* joinGame without its refusal of a started game
joinGameOfStarted(g, playerId, t) ==
    IF ensureGameNotStale(g, t) # "none"
    THEN [error |-> ensureGameNotStale(g, t), game |-> g]
    ELSE IF Len(g.playerIds) = 4 THEN [error |-> "GameFull", game |-> g]
    ELSE IF g.status = "finished" THEN [error |-> "GameFinished", game |-> g]
    ELSE [error |-> "none",
          game |-> [g EXCEPT !.playerIds = Append(@, playerId),
                             !.status = "ready",
                             !.events = Append(@, Event("joined", playerId))]]

\* Games.joinGame
joinGame(g, playerId, t) ==
    IF ensureGameNotStale(g, t) # "none"
    THEN [error |-> ensureGameNotStale(g, t), game |-> g]
    ELSE IF Len(g.playerIds) = 4 THEN [error |-> "GameFull", game |-> g]
    ELSE IF g.status = "finished" THEN [error |-> "GameFinished", game |-> g]
    ELSE IF g.status = "started" THEN [error |-> "GameStarted", game |-> g]
    ELSE [error |-> "none",
          game |-> [g EXCEPT !.playerIds = Append(@, playerId),
                             !.status = "ready",
                             !.events = Append(@, Event("joined", playerId))]]

\* makeMove writing the move log only once azul.do(move) has returned
makeMoveLogsAfter(g, s, playerId, move, t) ==
    IF ensureGameNotStale(g, t) # "none"
    THEN [error |-> ensureGameNotStale(g, t), game |-> g, state |-> s]
    ELSE IF g.status = "created" THEN [error |-> "GameNotReady", game |-> g, state |-> s]
    ELSE LET started == [g EXCEPT !.status = IF @ = "ready" THEN "started" ELSE @]
             logged == [started EXCEPT
                          !.moves = Append(@, [timestamp |-> t, move |-> move]),
                          !.events = Append(@, Event("played", playerId))]
             r == do(s, move)
         IN [error |-> r.error,
             game |-> IF r.error = "none" THEN logged ELSE started,
             state |-> r.state]

\* Games.makeMove: the status, the move log and the events are written before
\* azul.do(move) is called on the state of the record, so they stay written
\* when it throws
makeMove(g, s, playerId, move, t) ==
    IF ensureGameNotStale(g, t) # "none"
    THEN [error |-> ensureGameNotStale(g, t), game |-> g, state |-> s]
    ELSE IF g.status = "created" THEN [error |-> "GameNotReady", game |-> g, state |-> s]
    ELSE LET logged == [g EXCEPT
                          !.status = IF @ = "ready" THEN "started" ELSE @,
                          !.moves = Append(@, [timestamp |-> t, move |-> move]),
                          !.events = Append(@, Event("played", playerId))]
             r == do(s, move)
         IN [error |-> r.error, game |-> logged, state |-> r.state]

\* Games.endGame
endGame(g, reason) ==
    [g EXCEPT !.status = "finished", !.events = Append(@, Event(reason, ""))]

\* the callback of setInterval on the game
sweep(g, t) ==
    IF g.status = "finished" THEN [error |-> "none", game |-> g]
    ELSE IF /\ g.status \in {"created", "ready"}
            /\ getSecondsSinceCreated(g, t) > END_CREATED_GAMES_AFTER_SECONDS
    THEN [error |-> "none", game |-> endGame(g, "ended: not started")]
    ELSE IF g.status = "started"
    THEN LET timeSinceLastmove == getSecondsSinceLastMove(g, t)
         IN IF Falsy(timeSinceLastmove)
            THEN [error |-> "StartedWithoutMoves", game |-> g]
            ELSE IF timeSinceLastmove.value > END_STARTED_STALE_GAMES_AFTER_SECONDS
            THEN [error |-> "none", game |-> endGame(g, "ended: stale")]
            ELSE [error |-> "none", game |-> g]
    ELSE [error |-> "none", game |-> g]

\* the users who call the server: one who joins games (a user may join a game
\* more than once) and one who never does; the code compares no player ids
PlayerIds == {"alice", "bob"}

JoiningIds == {"alice"}

\* the tokens sent to a game: a pick from the first deal of MonoBag, which the
\* engine refuses the second time, and a token the parser refuses
GameTokens ==
    {Token(1, BLACK, 0), <<"0", "_", "R", "E", "D">>}

\* seconds between two readings of the clock
TickSeconds == 45

\* the clock stops at MaxTicks * TickSeconds
MaxTicks == 3

\* moves logged in one game
MaxLog == 2

\* players who join one game
MaxJoins == 2

InitGames ==
    LET made == create(0, MonoBag)
    IN /\ game = made.game
       /\ state = made.state
       /\ result = "created"
       /\ action = <<>>
       /\ lastMove = NoMove
       /\ moves = 0
       /\ now = 0

\* GET /games/:gameId/join
JoinGame(playerId) ==
    LET r == joinGame(game, playerId, now)
    IN /\ r.error = "none" => Len(game.playerIds) < MaxJoins
       /\ game' = r.game
       /\ result' = r.error
       /\ UNCHANGED <<state, action, lastMove, moves, now>>

\* GET /games/:gameId/move/:move
MakeMove(playerId, move) ==
    LET r == makeMove(game, state, playerId, move, now)
    IN /\ r.game # game => Len(game.moves) < MaxLog
       /\ game' = r.game
       /\ state' = r.state
       /\ result' = r.error
       /\ action' = IF r.error = "none" THEN move ELSE action
       /\ lastMove' = IF r.error = "none" THEN ParsedMove[move] ELSE lastMove
       /\ moves' = IF r.error = "none" THEN moves + 1 ELSE moves
       /\ now' = now

\* one run of the periodic sweep
Sweep ==
    LET r == sweep(game, now)
    IN /\ game' = r.game
       /\ result' = r.error
       /\ UNCHANGED <<state, action, lastMove, moves, now>>

\* time passes
Tick ==
    /\ now < MaxTicks * TickSeconds
    /\ now' = now + TickSeconds
    /\ UNCHANGED <<state, result, action, lastMove, moves, game>>

NextGames ==
    \/ \E playerId \in JoiningIds : JoinGame(playerId)
    \/ \E playerId \in PlayerIds, move \in GameTokens : MakeMove(playerId, move)
    \/ Sweep
    \/ Tick

\* one game of the server from Games.create on
SpecGames == InitGames /\ [][NextGames]_vars

\* the sweep keeps firing and time advances
SpecGamesFair == SpecGames /\ WF_vars(Sweep) /\ WF_vars(Tick)

(* ------------------------------ the claims ----------------------------- *)

\* a match exists: createFromNumPlayers returned
MatchExists == result \notin {"InvalidPlayerCount", "pending"}

RECURSIVE SumOver(_, _)
\* the sum of f[x] over the finite set S
SumOver(f, S) ==
    IF S = {} THEN 0
    ELSE LET x == CHOOSE y \in S : TRUE IN f[x] + SumOver(f, S \ {x})

\* the tiles of colour c a board holds, wall cells counted by their layout colour
TilesOfColor(s, c) ==
    LET players == DOMAIN s.patternLines
    IN CountIn(s.bag, c) + CountIn(s.center, c) + CountIn(s.discardPile, c)
       + SumOver([f \in DOMAIN s.factories |-> CountIn(s.factories[f], c)],
                 DOMAIN s.factories)
       + SumOver([p \in players |->
                    SumOver([l \in 0..4 |-> CountIn(s.patternLines[p][l], c)], 0..4)],
                 players)
       + SumOver([p \in players |-> CountIn(s.floorLines[p], c)], players)
       + SumOver([p \in players |->
                    Cardinality({rc \in (0..4) \X (0..4) :
                                   /\ s.walls[p][rc[1]][rc[2]]
                                   /\ wallOrdering[rc[1]][rc[2]] = c})],
                 players)

\* C1: in every state of a match of 2, 3 or 4 players, after any calls of
\* do(token), returned or thrown, each of the five colours has exactly 20 tiles
\* over bag, center, factories, pattern lines, floor lines, discard pile and
\* the wall cells set true.
C1_TileConservation ==
    MatchExists => \A c \in TILE_COLOR : TilesOfColor(state, c) = 20

\* a round has ended with tiles on a wall, in the discard pile and on a floor line
C1_Witness ==
    /\ MatchExists
    /\ state.discardPile # <<>>
    /\ \E p \in DOMAIN state.walls :
          /\ \E r \in 0..4, c \in 0..4 : state.walls[p][r][c]
          /\ state.floorLines[p] # <<>>

\* C2: createFromNumPlayers(n) gives 5, 7, 9 factories for n = 2, 3, 4, each
\* with the next 4 tiles of the front of a bag of 100 (20 of each colour);
\* center, pattern lines, floor lines and discard pile are empty, every wall
\* cell is false and currentPlayerIndex = startingPlayer = 0; for any other n
\* it throws and there is no match.
C2_MatchCreation ==
    LET n == state.numberOfPlayers
        nf == CASE n = 2 -> 5 [] n = 3 -> 7 [] n = 4 -> 9 [] OTHER -> 0
        whole == [i \in 1..(4 * nf) |-> state.factories[(i - 1) \div 4][((i - 1) % 4) + 1]]
                     \o state.bag
    IN /\ (result = "InvalidPlayerCount") <=> (moves = 0 /\ n \notin {2, 3, 4})
       /\ result = "created" =>
             /\ n \in {2, 3, 4}
             /\ DOMAIN state.factories = 0..(nf - 1)
             /\ \A f \in DOMAIN state.factories : Len(state.factories[f]) = 4
             /\ whole \in Shuffles
             /\ Len(whole) = 100
             /\ \A c \in TILE_COLOR : CountIn(whole, c) = 20
             /\ state.center = <<>>
             /\ state.discardPile = <<>>
             /\ \A p \in 0..(n - 1) :
                   /\ state.floorLines[p] = <<>>
                   /\ \A l \in 0..4 : state.patternLines[p][l] = <<>>
                   /\ \A r \in 0..4, c \in 0..4 : state.walls[p][r][c] = FALSE
             /\ DOMAIN state.patternLines = 0..(n - 1)
             /\ state.currentPlayerIndex = 0
             /\ state.startingPlayer = 0

\* a match of four has just been created with its nine factories
C2_Witness ==
    /\ result = "created"
    /\ state.numberOfPlayers = 4
    /\ Cardinality(DOMAIN state.factories) = 9

\* what C3 says parseMove does with a token of three fields
C3_Expected(c) ==
    IF ~(c.source.isInt /\ c.source.val \in 0..9) THEN [error |-> "InvalidSource"]
    ELSE IF c.color.color = "none" THEN [error |-> "InvalidColor"]
    ELSE IF ~(c.line.isInt /\ c.line.val \in 0..4) THEN [error |-> "InvalidLine"]
    ELSE [error |-> "none", from |-> c.source.val, color |-> c.color.color,
          toLine |-> c.line.val]

\* C3: parseMove applies four rules in order and reports the first that fails:
\* exactly two separators, else MalformedToken; SOURCE an integer (here 0..9),
\* else InvalidSource; COLOR one of the five names in any case, else
\* InvalidColor; LINE an integer in 0..4, else InvalidLine; a token passing all
\* four gives the move with exactly those values.
C3_ParseRules ==
    lastMove # NoMove =>
        /\ action \in OtherTokens => lastMove = [error |-> "MalformedToken"]
        /\ \A c \in ThreeFieldCases : c.token = action => lastMove = C3_Expected(c)

\* the pile a move of source from selects: the center for 0, factories[from - 1]
\* otherwise; a factory the match does not have holds no tile
SelectedPile(from) ==
    IF from = 0 THEN state.center
    ELSE IF (from - 1) \in DOMAIN state.factories THEN state.factories[from - 1]
    ELSE <<>>

\* the line of the current player a move targets
TargetLine(toLine) == state.patternLines[state.currentPlayerIndex][toLine]

\* the current player's wall row toLine has the cell of colour c set
WallHas(toLine, c) ==
    \E column \in 0..4 :
        /\ wallOrdering[toLine][column] = c
        /\ state.walls[state.currentPlayerIndex][toLine][column]

\* C4: a token whose SOURCE is greater than the number of factories of the
\* match is rejected with InvalidSource and with no other error.
C4_SourceBeyondFactories ==
    MatchExists =>
        \A t \in MoveTokens :
            ParsedMove[t].from > Cardinality(DOMAIN state.factories)
                => do(state, t).error = "InvalidSource"

\* C5: do fails with ColorNotInPile exactly when the selected pile holds no
\* tile of the move's colour, whatever the pattern line and the wall say.
C5_ColorNotInPile ==
    MatchExists =>
        \A t \in MoveTokens :
            LET m == ParsedMove[t]
            IN (do(state, t).error = "ColorNotInPile")
                   <=> (CountIn(SelectedPile(m.from), m.color) = 0)

\* a pick from the empty center has failed in a state where the line or the
\* wall of the current player would have refused a colour as well
C5_Witness ==
    /\ result = "ColorNotInPile"
    /\ state.center = <<>>
    /\ \E t \in MoveTokens :
          LET m == ParsedMove[t]
          IN /\ m.from = 0
             /\ \/ (TargetLine(m.toLine) # <<>> /\ ~includes(TargetLine(m.toLine), m.color))
                \/ WallHas(m.toLine, m.color)

\* the target line is not empty and holds a colour other than c
HoldsOtherColor(toLine, c) ==
    /\ TargetLine(toLine) # <<>>
    /\ \E i \in 1..Len(TargetLine(toLine)) : TargetLine(toLine)[i] # c

\* C6 as stated: a move into a line of the current player that is not empty and
\* holds another colour fails with LineColorConflict.
C6_Original ==
    MatchExists =>
        \A t \in MoveTokens :
            HoldsOtherColor(ParsedMove[t].toLine, ParsedMove[t].color)
                => do(state, t).error = "LineColorConflict"

\* C6 as amended: such a move always fails and leaves the state alone, with
\* LineColorConflict when the selected pile holds its colour and with
\* ColorNotInPile, the earlier check, when it does not; this in every state,
\* whatever turns and rounds have passed since the line was started.
C6_LineColorConflict ==
    MatchExists =>
        \A t \in MoveTokens :
            LET m == ParsedMove[t]
            IN HoldsOtherColor(m.toLine, m.color) =>
                  /\ do(state, t).state = state
                  /\ do(state, t).error =
                        IF CountIn(SelectedPile(m.from), m.color) = 0
                        THEN "ColorNotInPile" ELSE "LineColorConflict"

\* after a round has ended, a move fails on a line started before
C6_Witness ==
    /\ result = "LineColorConflict"
    /\ \E p \in DOMAIN state.walls : \E r \in 0..4, c \in 0..4 : state.walls[p][r][c]
    /\ Len(TargetLine(4)) = 4

\* C7 as stated: a move of colour c to line i fails with WallAlreadyHasColor
\* whenever the current player's wall row i has the cell of colour c set.
C7_Original ==
    MatchExists =>
        \A t \in MoveTokens :
            WallHas(ParsedMove[t].toLine, ParsedMove[t].color)
                => do(state, t).error = "WallAlreadyHasColor"

\* a wall cell that is set stays set
WallCellsStay ==
    \A p \in DOMAIN state.walls : \A r \in 0..4, c \in 0..4 :
        state.walls[p][r][c] => state'.walls[p][r][c]

\* the error of a move of colour c to a line whose wall row has c
C7_FailsOnWall ==
    MatchExists =>
        \A t \in MoveTokens :
            LET m == ParsedMove[t]
            IN WallHas(m.toLine, m.color) =>
                  /\ do(state, t).state = state
                  /\ do(state, t).error =
                        IF CountIn(SelectedPile(m.from), m.color) = 0
                        THEN "ColorNotInPile"
                        ELSE IF HoldsOtherColor(m.toLine, m.color)
                        THEN "LineColorConflict"
                        ELSE "WallAlreadyHasColor"

\* C7 as amended: such a move always fails and leaves the state alone, with
\* WallAlreadyHasColor unless an earlier check fails (ColorNotInPile when the
\* pile lacks c, LineColorConflict when line i holds another colour); a wall
\* cell once set stays set, so the player never again places c into line i.
C7_WallAlreadyHasColor == [](C7_FailsOnWall) /\ [][WallCellsStay]_vars

\* a move has failed on the wall
C7_Witness ==
    /\ result = "WallAlreadyHasColor"
    /\ \E t \in MoveTokens :
          WallHas(ParsedMove[t].toLine, ParsedMove[t].color)

ParserErrors == {"MalformedToken", "InvalidSource", "InvalidColor", "InvalidLine"}

RuleErrors == {"ColorNotInPile", "LineColorConflict", "WallAlreadyHasColor"}

\* C8: a call of do that fails with a parser error or a rule error leaves every
\* field of the state as it was.
C8_NoMutationOnError ==
    [][result' \in ParserErrors \cup RuleErrors => state' = state]_vars

\* a call has failed in a match under way
C8_Witness ==
    /\ result \in RuleErrors
    /\ moves > 0
    /\ state.center # <<>>

\* n tiles of colour c
Copies(c, n) == [i \in 1..n |-> c]

Min(a, b) == IF a < b THEN a ELSE b

\* the tiles of s in order, those of colour c left out
Without(s, c) == SelectSeqBy(s, c, FALSE)

\* the step is a call of do that returned
Returned == moves' = moves + 1

\* the call that returned took the last tiles of the round: every pile but the
\* selected one was empty and the selected one held the picked colour only
TookLastTiles ==
    LET m == lastMove'
    IN /\ \A k \in DOMAIN state.factories :
             k # m.from - 1 => state.factories[k] = <<>>
       /\ m.from # 0 => state.center = <<>>
       /\ Without(SelectedPile(m.from), m.color) = <<>>

\* the placement of a call that returned: the line takes min(m, f) tiles and
\* the floor line the others; a line filled by the call that ends the round is
\* emptied by the tiling of the same call
C9_Placement ==
    Returned =>
        LET mv == lastMove'
            cpi == state.currentPlayerIndex
            line == state.patternLines[cpi][mv.toLine]
            m == CountIn(SelectedPile(mv.from), mv.color)
            f == (mv.toLine + 1) - Len(line)
            k == Min(m, f)
            appended == line \o Copies(mv.color, k)
        IN /\ m > 0
           /\ f >= 0
           /\ state'.floorLines[cpi] = state.floorLines[cpi] \o Copies(mv.color, m - k)
           /\ state'.patternLines[cpi][mv.toLine] =
                  IF TookLastTiles /\ Len(appended) = mv.toLine + 1 THEN <<>>
                  ELSE appended
           /\ TookLastTiles /\ Len(appended) = mv.toLine + 1 =>
                  \E column \in 0..4 :
                      /\ wallOrdering[mv.toLine][column] = mv.color
                      /\ state'.walls[cpi][mv.toLine][column]

\* a move whose colour is in the pile and that the line and the wall allow is
\* carried out, however little room the line has
C9_NeverRejectedForSpace ==
    MatchExists =>
        \A t \in MoveTokens :
            LET mv == ParsedMove[t]
            IN (/\ CountIn(SelectedPile(mv.from), mv.color) > 0
                /\ ~HoldsOtherColor(mv.toLine, mv.color)
                /\ ~WallHas(mv.toLine, mv.color))
               => do(state, t).error \in {"none", "GameEndingNotImplemented"}

\* C9: a successful move of m tiles into line i with f free spaces appends
\* min(m, f) tiles to the current player's line i and the other m - min(m, f)
\* to that player's floor line, and no move is rejected for lack of space,
\* not even with f = 0.
C9_OverflowPlacement == [](C9_NeverRejectedForSpace) /\ [][C9_Placement]_vars

\* a player has moved four tiles into the full line 0: all four went to the
\* floor line, after the three of the move that filled the line
C9_Witness ==
    /\ result = "none"
    /\ lastMove.toLine = 0
    /\ \E p \in DOMAIN state.patternLines :
          /\ p # state.currentPlayerIndex
          /\ Len(state.patternLines[p][0]) = 1
          /\ Len(state.floorLines[p]) = 7

\* the piles after a call that returned, as C10 states them
C10_PilesAfter ==
    LET mv == lastMove'
    IN IF mv.from = 0
       THEN /\ state'.center = Without(state.center, mv.color)
            /\ state'.factories = state.factories
       ELSE /\ state'.factories[mv.from - 1] = <<>>
            /\ state'.center =
                   state.center \o Without(state.factories[mv.from - 1], mv.color)
            /\ \A k \in DOMAIN state.factories :
                   k # mv.from - 1 => state'.factories[k] = state.factories[k]

RECURSIVE Concat(_, _)
\* the factories 0..(n - 1) of fs, one after the other
Concat(fs, n) == IF n = 0 THEN <<>> ELSE Concat(fs, n - 1) \o fs[n - 1]

C11_InRange ==
    MatchExists => state.currentPlayerIndex \in 0..(state.numberOfPlayers - 1)

\* how a call of do changes currentPlayerIndex
C11_Step ==
    LET p == state.currentPlayerIndex
    IN state'.currentPlayerIndex =
          IF ~Returned THEN p
          ELSE IF TookLastTiles THEN state.startingPlayer
          ELSE (p + 1) % state.numberOfPlayers

\* C11: a successful move that leaves a pile non-empty passes the turn from p
\* to (p + 1) mod numberOfPlayers; currentPlayerIndex changes in no other way
\* but to startingPlayer at a round boundary, and it is always a player index.
C11_TurnOrder == [](C11_InRange) /\ [][C11_Step]_vars

\* in a match of three players the turn has come back to player 0
C11_Witness ==
    /\ result = "none"
    /\ state.numberOfPlayers = 3
    /\ moves = 3
    /\ state.currentPlayerIndex = 0
    /\ state.center # <<>>

\* the pattern line lineIndex of player p once the picked tiles of the call
\* that returned have been placed, before any tiling
PlacedLine(p, lineIndex) ==
    LET mv == lastMove'
        line == state.patternLines[p][lineIndex]
        m == CountIn(SelectedPile(mv.from), mv.color)
        f == (lineIndex + 1) - Len(line)
    IN IF p = state.currentPlayerIndex /\ lineIndex = mv.toLine
       THEN line \o Copies(mv.color, Min(m, f))
       ELSE line

\* the column of row lineIndex whose colour is c
ColumnOf(lineIndex, c) == CHOOSE column \in 0..4 : wallOrdering[lineIndex][column] = c

\* the step tiled the walls: every full line is empty afterwards and its wall
\* cell is set, every other line is carried over
TiledNow ==
    \A p \in DOMAIN state.patternLines : \A i \in 0..4 :
        LET placed == PlacedLine(p, i)
        IN IF Len(placed) = i + 1
           THEN /\ state'.patternLines[p][i] = <<>>
                /\ state'.walls[p][i][ColumnOf(i, placed[1])]
           ELSE state'.patternLines[p][i] = placed

\* the step did not tile: walls and discard pile are as before and the lines
\* hold what was placed, full lines included
NotTiledNow ==
    /\ state'.walls = state.walls
    /\ state'.discardPile = state.discardPile
    /\ state'.bag = state.bag
    /\ \A p \in DOMAIN state.patternLines : \A i \in 0..4 :
          state'.patternLines[p][i] = PlacedLine(p, i)

\* the step dealt the factories from the front of the bag
RedealtNow ==
    /\ state'.center = <<>>
    /\ DOMAIN state'.factories = DOMAIN state.factories
    /\ Concat(state'.factories, Cardinality(DOMAIN state'.factories))
           \o state'.bag = state.bag
    /\ \A k \in DOMAIN state'.factories :
           \/ Len(state'.factories[k]) = TilesPerFactory
           \/ state'.bag = <<>>

\* C12: the walls are tiled exactly in the successful move that leaves the
\* center and every factory empty; if no wall row is complete after it, the
\* factories are redealt from the front of the bag and currentPlayerIndex is
\* startingPlayer, the lines that were incomplete being carried over.
C12_RoundBoundary ==
    [][IF Returned /\ TookLastTiles
       THEN /\ TiledNow
            /\ ~shouldEnd(state')
            /\ RedealtNow
            /\ state'.currentPlayerIndex = state'.startingPlayer
            /\ state'.startingPlayer = state.startingPlayer
       ELSE IF Returned THEN NotTiledNow
       ELSE result' # "GameEndingNotImplemented" => state' = state]_vars

\* a second round has started with the starting player, a tiled wall and a
\* line carried over
C12_Witness ==
    /\ result = "none"
    /\ moves > 0
    /\ state.center = <<>>
    /\ \A k \in DOMAIN state.factories : Len(state.factories[k]) = TilesPerFactory
    /\ state.currentPlayerIndex = state.startingPlayer
    /\ \E p \in DOMAIN state.walls :
          /\ \E r \in 0..4, c \in 0..4 : state.walls[p][r][c]
          /\ \E i \in 0..4 : state.patternLines[p][i] # <<>>

RECURSIVE DiscardedFrom(_)
\* the tiles the tiling of the step discards, players and lines in order from
\* the line numbered k (player k \div 5, line k % 5): i tiles of a full line i
DiscardedFrom(k) ==
    IF k >= 5 * state.numberOfPlayers THEN <<>>
    ELSE LET placed == PlacedLine(k \div 5, k % 5)
         IN (IF Len(placed) = (k % 5) + 1 THEN Copies(placed[1], k % 5) ELSE <<>>)
                \o DiscardedFrom(k + 1)

\* the wall cells of the step: those of the full lines become true, from false,
\* and no other cell changes
WallsTiled ==
    \A p \in DOMAIN state.walls : \A i \in 0..4, column \in 0..4 :
        LET placed == PlacedLine(p, i)
        IN IF Len(placed) = i + 1 /\ wallOrdering[i][column] = placed[1]
           THEN ~state.walls[p][i][column] /\ state'.walls[p][i][column]
           ELSE state'.walls[p][i][column] = state.walls[p][i][column]

\* C13: at the round boundary every full line i of colour c sets exactly the
\* wall cell of row i and colour c, appends i tiles of c to discardPile and is
\* empty afterwards; lines that are not full and all other wall cells are left
\* as they were.
C13_WallTiling ==
    [][Returned /\ TookLastTiles =>
          /\ WallsTiled
          /\ state'.discardPile = state.discardPile \o DiscardedFrom(0)
          /\ \A p \in DOMAIN state.patternLines : \A i \in 0..4 :
                state'.patternLines[p][i] =
                    IF Len(PlacedLine(p, i)) = i + 1 THEN <<>> ELSE PlacedLine(p, i)]_vars

\* a full line 4 has been tiled: four tiles discarded, its wall cell set, and
\* a line that was not full is still there
C13_Witness ==
    /\ result = "none"
    /\ Len(state.discardPile) = 4
    /\ \E p \in DOMAIN state.walls :
          /\ \E c \in 0..4 : state.walls[p][4][c]
          /\ state.patternLines[p][4] = <<>>
    /\ \E p \in DOMAIN state.patternLines : \E i \in 0..4 :
          state.patternLines[p][i] # <<>>

\* the number of true cells of row r of player p's wall
TrueInRow(p, r) == Cardinality({c \in 0..4 : state.walls[p][r][c]})

\* the number of true cells of column c of player p's wall
TrueInColumn(p, c) == Cardinality({r \in 0..4 : state.walls[p][r][c]})

\* C14: shouldEnd returns true if and only if some row of some player's wall
\* has all 5 cells true: true for one complete row beside partial rows, false
\* for complete columns without a complete row.
C14_ShouldEnd ==
    result \in {"true", "false"} =>
        /\ (result = "true") <=> (\E p \in 0..1 : \E r \in 0..4 : TrueInRow(p, r) = 5)
        /\ (result = "true") <=>
               (\E p \in 0..1 : \E w \in WallCases :
                    state.walls[p] = WallOf(w.cells) /\ w.fullRow)
        /\ (\A p \in 0..1 : \A r \in 0..4 : TrueInRow(p, r) < 5) => result = "false"

\* shouldEnd has returned true for a wall with one complete row and four
\* partial ones, beside a wall with complete columns and no complete row
C14_Witness ==
    /\ result = "true"
    /\ \E p \in 0..1 :
          /\ Cardinality({r \in 0..4 : TrueInRow(p, r) = 5}) = 1
          /\ \A r \in 0..4 : TrueInRow(p, r) \in {2, 5}
          /\ \A r \in 0..4 : TrueInRow(1 - p, r) < 5
          /\ \E c \in 0..4 : TrueInColumn(1 - p, c) = 5

\* some row of some player's wall is complete
CompleteRow ==
    \E p \in DOMAIN state.walls : \E r \in 0..4 :
        Cardinality({c \in 0..4 : state.walls[p][r][c]}) = 5

\* C15: the move that empties all piles and, after the tiling, completes a wall
\* row is carried out without an error being raised.
C15_TerminalTransition ==
    [][(state' # state /\ CompleteRow') => result' = "none"]_vars

\* C16: a deal made with fewer than 4 tiles per factory in the bag does not
\* return short or empty factories: after every deal that returns, every
\* factory holds exactly 4 tiles.
C16_BagExhaustion ==
    [][Returned /\ TookLastTiles =>
          \A k \in DOMAIN state'.factories :
              Len(state'.factories[k]) = TilesPerFactory]_vars

\* C18: in every reachable state all tiles of a pattern line have one colour.
C18_ColourPurity ==
    MatchExists =>
        \A p \in DOMAIN state.patternLines : \A i \in 0..4 :
            \A j, k \in 1..Len(state.patternLines[p][i]) :
                state.patternLines[p][i][j] = state.patternLines[p][i][k]

\* a line filled by two picks of its colour, after a move of another colour
\* into a started line has been refused
C18_Witness ==
    /\ result = "LineColorConflict"
    /\ \E p \in DOMAIN state.patternLines :
          /\ Len(state.patternLines[p][4]) = 5
          /\ Len(state.floorLines[p]) = 3

\* C20: in a match of 2, 3 or 4 players every factory holds 4 tiles or none,
\* also after the deals made when the bag is running out.
C20_FactorySize ==
    MatchExists =>
        \A k \in DOMAIN state.factories : Len(state.factories[k]) \in {0, TilesPerFactory}

\* a deal has found fewer tiles in the bag than the factories take
C20_Witness ==
    /\ result = "none"
    /\ moves > 0
    /\ state.bag = <<>>
    /\ state.center = <<>>
    /\ Len(state.factories[0]) = TilesPerFactory
    /\ \A k \in DOMAIN state.factories :
          (\A j \in DOMAIN state.factories : j <= k) => state.factories[k] = <<>>
    /\ \E p \in DOMAIN state.walls : \E c \in 0..4 : state.walls[p][1][c]

\* the user who called makeMove last, as the events name them
LastMover(g) == g.events[Len(g.events)].playerId

\* C17: a move is applied only when the acting player is the player at
\* currentPlayerIndex; a move of any other user is rejected and changes
\* nothing.
C17_TurnEnforcement ==
    [][state' # state =>
          /\ state.currentPlayerIndex + 1 \in DOMAIN game.playerIds
          /\ LastMover(game') = game.playerIds[state.currentPlayerIndex + 1]]_vars

\* C19: once the status of a game is finished, no makeMove call appends to its
\* move log or changes its state and no joinGame call adds a player.
C19_FinishedIsTerminal ==
    [][game.status = "finished" =>
          /\ game'.moves = game.moves
          /\ state' = state
          /\ game'.playerIds = game.playerIds]_vars

\* no pattern line holds more tiles than its size
C21_WithinCapacity ==
    MatchExists =>
        \A p \in DOMAIN state.patternLines : \A i \in 0..4 :
            Len(state.patternLines[p][i]) <= i + 1

\* C21: the length of patternLines[player][i] is at most i + 1 in every
\* reachable state, and right after a round boundary no line has length i + 1.
C21_LineCapacity ==
    /\ [](C21_WithinCapacity)
    /\ [][(Returned /\ TookLastTiles) \/ result' = "GameEndingNotImplemented" =>
             \A p \in DOMAIN state'.patternLines : \A i \in 0..4 :
                 Len(state'.patternLines[p][i]) < i + 1]_vars

\* after a round boundary that emptied a full line 0, a line 4 holds 4 tiles
\* and a pick of 4 more is about to overflow it
C21_Witness ==
    /\ result = "none"
    /\ \E p \in DOMAIN state.patternLines :
          /\ Len(state.patternLines[p][4]) = 4
          /\ state.patternLines[p][0] = <<>>
          /\ \E c \in 0..4 : state.walls[p][0][c]
          /\ Len(state.floorLines[p]) >= 3

\* what a successful move that leaves a pile non-empty does not change
C22_MidRoundFrame ==
    LET mv == lastMove'
        cpi == state.currentPlayerIndex
    IN /\ state'.walls = state.walls
       /\ state'.bag = state.bag
       /\ state'.discardPile = state.discardPile
       /\ state'.numberOfPlayers = state.numberOfPlayers
       /\ state'.startingPlayer = state.startingPlayer
       /\ \A k \in DOMAIN state.factories :
              k # mv.from - 1 => state'.factories[k] = state.factories[k]
       /\ \A p \in DOMAIN state.patternLines :
              p # cpi => /\ state'.patternLines[p] = state.patternLines[p]
                         /\ state'.floorLines[p] = state.floorLines[p]
       /\ \A i \in 0..4 :
              i # mv.toLine => state'.patternLines[cpi][i] = state.patternLines[cpi][i]

\* C22: a successful move that does not empty all piles leaves the walls, the
\* bag, the discard pile, the factories other than the source, the other
\* players' lines and floor lines and the current player's other lines
\* unchanged; walls change only in the tiling at a round boundary.
C22_Frame ==
    [][/\ (Returned /\ ~TookLastTiles) => C22_MidRoundFrame
       /\ state'.walls # state.walls =>
              (Returned /\ TookLastTiles) \/ result' = "GameEndingNotImplemented"]_vars

\* the third player of a match of four has overflowed a line while the lines
\* and floor lines of the two before hold what they placed
C22_Witness ==
    /\ result = "none"
    /\ state.numberOfPlayers = 4
    /\ state.currentPlayerIndex = 3
    /\ moves = 3
    /\ state.floorLines[2] # <<>>
    /\ \A p \in 0..1 : \E i \in 0..4 : state.patternLines[p][i] # <<>>

\* a started line's colour is not yet on its wall row
C27_LineNotOnWall ==
    MatchExists =>
        \A p \in DOMAIN state.patternLines : \A i \in 0..4 :
            state.patternLines[p][i] # <<>> =>
                ~state.walls[p][i][ColumnOf(i, state.patternLines[p][i][1])]

\* the true cells of player p's wall in s
TrueCells(s, p) == Cardinality({rc \in Cells : s.walls[p][rc[1]][rc[2]]})

\* the lines of player p that are full once the picked tiles are placed
FullLines(p) == {i \in 0..4 : Len(PlacedLine(p, i)) = i + 1}

\* C27: a non-empty line's colour is never already set in its wall row, so the
\* tiling always turns a false cell true and a wall grows by exactly the number
\* of its player's full lines.
C27_WallCellsOnce ==
    /\ [](C27_LineNotOnWall)
    /\ [][Returned /\ TookLastTiles =>
             \A p \in DOMAIN state.walls :
                 TrueCells(state', p) = TrueCells(state, p) + Cardinality(FullLines(p))]_vars

\* a player whose wall row 0 has a tile holds another colour in line 0
C27_Witness ==
    /\ MatchExists
    /\ \E p \in DOMAIN state.walls :
          /\ state.patternLines[p][0] # <<>>
          /\ \E c \in 0..4 : state.walls[p][0][c]

\* C23: a game has status ready only when at least 2 players have joined, so a
\* first move is accepted only in a game of at least 2 joined players.
C23_ReadyNeedsTwo ==
    game.status = "ready" => Len(game.playerIds) >= 2

\* C24: under every interleaving of joinGame, makeMove (returning or throwing)
\* and sweep, a game with status started has an entry in its move log; the
\* sweep's 'started, but no moves' error is never raised for lack of a move.
C24_StartedHasMoves ==
    /\ game.status = "started" => Len(game.moves) >= 1
    /\ result = "StartedWithoutMoves" => Len(game.moves) >= 1

\* a game started by a move that the engine refused
C24_Witness ==
    /\ game.status = "started"
    /\ Len(game.moves) = 1
    /\ moves = 0
    /\ result = "MalformedToken"

\* the place of a status in the order created, ready, started, finished
Rank(status) ==
    CASE status = "created" -> 0
      [] status = "ready" -> 1
      [] status = "started" -> 2
      [] status = "finished" -> 3

\* C25: the status of a game never returns to an earlier value of the order
\* created, ready, started, finished, and finished is never left.
C25_StatusForward ==
    [][/\ Rank(game'.status) >= Rank(game.status)
       /\ game.status = "finished" => game'.status = "finished"]_vars

\* a game that was started has been finished and has refused a player
C25_Witness ==
    /\ game.status = "finished"
    /\ Len(game.moves) >= 1
    /\ Len(game.playerIds) = 2
    /\ result = "GameFinished"

\* more than TIME_PER_MOVE seconds have passed since the last logged move
Stale ==
    /\ Len(game.moves) > 0
    /\ now - game.moves[Len(game.moves)].timestamp > TIME_PER_MOVE

\* the clock of the model runs long enough after the last logged move for the
\* sweep to find the game stale
SweepInReach ==
    /\ Len(game.moves) > 0
    /\ game.moves[Len(game.moves)].timestamp + END_STARTED_STALE_GAMES_AFTER_SECONDS
           < MaxTicks * TickSeconds

\* C26: with the sweep firing and time advancing, a game without any move is
\* eventually finished, and so is a started game that gets no further
\* makeMove call; a game whose last move is older than TIME_PER_MOVE seconds
\* refuses makeMove and joinGame, so nothing revives it before the sweep.
C26_CleanUp ==
    /\ (Len(game.moves) = 0) ~> (game.status = "finished" \/ Len(game.moves) > 0)
    /\ \A k \in 1..MaxLog :
          (game.status = "started" /\ Len(game.moves) = k /\ SweepInReach)
              ~> (game.status = "finished" \/ Len(game.moves) > k)
    /\ [][Stale => /\ game'.moves = game.moves
                   /\ game'.playerIds = game.playerIds
                   /\ state' = state
                   /\ game'.status \in {game.status, "finished"}]_vars

\* the sweep has ended a stale game, which then refused a call as stale
C26_Witness ==
    /\ game.status = "finished"
    /\ game.events[Len(game.events)].kind = "ended: stale"
    /\ result = "GameStale"

\* C29: after every round boundary at which no wall row is complete the deal
\* leaves a factory non-empty: no match of 2, 3 or 4 players reaches a state
\* in which all piles are empty and no wall row is complete.
C29_NextRoundPlayable ==
    MatchExists => (allPilesAreEmpty(state) => CompleteRow)

\* C30: once a wall has a complete row the center and all factories are
\* empty, every call of do(token) fails and leaves the GameState as it is, and
\* no step changes the GameState any more.
C30_EndStateFrozen ==
    /\ [](CompleteRow =>
            /\ allPilesAreEmpty(state)
            /\ \A token \in Tokens \cup LongTokens :
                  /\ do(state, token).error # "none"
                  /\ do(state, token).state = state)
    /\ [][CompleteRow => /\ state' = state
                         /\ result' # "none"
                         /\ moves' = moves]_vars

\* a call made after the end condition held has failed
C30_Witness ==
    /\ CompleteRow
    /\ result = "ColorNotInPile"

\* C28: in every reachable state in which the center or some factory is not
\* empty the current player has a move (source, colour, line) that pickTiles
\* accepts.
C28_NoDeadlock ==
    (MatchExists /\ ~allPilesAreEmpty(state)) =>
        \E pileIndex \in 0..9 : \E color \in TILE_COLOR : \E lineIndex \in 0..4 :
            pickTiles(state, pileIndex, lineIndex, color).error
                \in {"none", "GameEndingNotImplemented"}

\* the tiles in the center and the factories
PileTotal(s) ==
    Len(s.center)
        + SumOver([k \in DOMAIN s.factories |-> Len(s.factories[k])],
                  DOMAIN s.factories)

\* the most tiles a deal puts into the factories
DealSize(s) == TilesPerFactory * NumFactories(s.numberOfPlayers)

\* no deal but the first has been made: the bag is as the first deal left it
FirstRound(s) == Len(s.bag) = 5 * TilesPerColor - DealSize(s)

\* C31: every call that returns takes at least one tile out of the center and
\* the factories and adds none: unless it took the last tiles, the tiles in the
\* piles become fewer by the picked ones; the piles never hold more than
\* 4 x numberOfFactories tiles, and the moves of the first round and the tiles
\* left in the piles together never exceed that number.
C31_RoundProgress ==
    /\ [](MatchExists =>
            /\ PileTotal(state) <= DealSize(state)
            /\ FirstRound(state) => moves + PileTotal(state) <= DealSize(state))
    /\ [][Returned =>
            LET m == lastMove'
                picked == CountIn(SelectedPile(m.from), m.color)
            IN /\ picked >= 1
               /\ ~TookLastTiles =>
                     /\ PileTotal(state') = PileTotal(state) - picked
                     /\ PileTotal(state') >= 1]_vars

\* a pick from the center, in the first round, that left tiles in the piles
C31_Witness ==
    /\ result = "none"
    /\ moves >= 2
    /\ lastMove.from = 0
    /\ FirstRound(state)
    /\ PileTotal(state) >= 1
    /\ state.numberOfPlayers = 3

\* C32: a call of makeMove whose move the parser or the engine rejects leaves
\* the status, the move log and the event list of the game record as they
\* were.
C32_RejectedMoveLeavesRecord ==
    [][result' \in ParserErrors \cup RuleErrors =>
          /\ game'.status = game.status
          /\ game'.moves = game.moves
          /\ game'.events = game.events]_vars

====
